---- MODULE Spec2Model ----
(***************************************************************************)
(* A model of seb's BibTeX codec (crates/seb/src/format/bibtex.rs) and of  *)
(* one run of the command line program (crates/core/main.rs).              *)
(*                                                                         *)
(* Strings that the code only copies are TLA+ strings.  A string the code  *)
(* looks into (a field name, for replace('_', ""); the BibTeX text, for    *)
(* the grammar parser) is a sequence of pieces whose concatenation is the  *)
(* string: Flatten gives the string itself.                                *)
(***************************************************************************)
EXTENDS Naturals, Sequences, FiniteSets, TLC

VARIABLES
    pc,        \* where the modelled computation stands
    chunks,    \* biblatex::Chunks handed to QuotedString::from
    qs,        \* the QuotedString built from chunks
    out,       \* the String map_quoted returned
    biblio,    \* the Biblio (entries and dirty flag)
    inserted,  \* history: cite -> the order its optional fields were inserted in
    raw,       \* BibTex(String): the text, as pieces
    result,    \* what BibTex::parse returned
    last,      \* history: the last Biblio operation and what it returned
    ops,       \* number of Biblio operations done so far
    cmd,       \* the Commands value of this run
    run        \* history of one try_main run: the file reads, executes and writes done

vars == <<pc, chunks, qs, out, biblio, inserted, raw, result, last, ops, cmd, run>>

----------------------------------------------------------------------------
(* Bounds of the model. *)

MaxChunks == 4
MaxEntries == 2
MaxOps == 3

----------------------------------------------------------------------------
(* Strings as sequences of pieces. *)

RECURSIVE Flatten(_)
Flatten(pieces) ==
    IF pieces = <<>> THEN "" ELSE Head(pieces) \o Flatten(Tail(pieces))

RECURSIVE Concat(_)
Concat(seqs) ==
    IF seqs = <<>> THEN <<>> ELSE Head(seqs) \o Concat(Tail(seqs))

Range(s) == {s[i] : i \in 1..Len(s)}

Perms(S) == {p \in [1..Cardinality(S) -> S] : Range(p) = S}

----------------------------------------------------------------------------
(* QuotedString: a sequence of (verbatim, text) parts. *)

Part(v, s) == [verbatim |-> v, text |-> s]

QuotedStringNew(s) == <<Part(FALSE, s)>>

\* merge consecutive parts that share a verbatim flag
RECURSIVE MergeAdjacent(_)
MergeAdjacent(parts) ==
    IF Len(parts) < 2 THEN parts
    ELSE IF parts[1].verbatim = parts[2].verbatim
         THEN MergeAdjacent(<<Part(parts[1].verbatim, parts[1].text \o parts[2].text)>>
                            \o SubSeq(parts, 3, Len(parts)))
         ELSE <<parts[1]>> \o MergeAdjacent(Tail(parts))

\* escape correction: a normal part between two verbatim parts joins them
RECURSIVE EscapeCorrect(_)
EscapeCorrect(parts) ==
    IF Len(parts) < 3 THEN parts
    ELSE IF parts[1].verbatim /\ ~parts[2].verbatim /\ parts[3].verbatim
         THEN EscapeCorrect(<<Part(TRUE, parts[1].text \o parts[2].text \o parts[3].text)>>
                            \o SubSeq(parts, 4, Len(parts)))
         ELSE <<parts[1]>> \o EscapeCorrect(Tail(parts))

from_parts(parts) == EscapeCorrect(MergeAdjacent(parts))

bibtex_esc(s) == "{" \o s \o "}"

\* map_quoted(bibtex_esc), as pieces: a verbatim part is wrapped, a normal one is not
RECURSIVE map_quoted_pieces(_)
map_quoted_pieces(q) ==
    IF q = <<>> THEN <<>>
    ELSE (IF q[1].verbatim THEN <<"{", q[1].text, "}">> ELSE <<q[1].text>>)
         \o map_quoted_pieces(Tail(q))

RECURSIVE map_quoted(_)
map_quoted(q) ==
    IF q = <<>> THEN ""
    ELSE (IF q[1].verbatim THEN bibtex_esc(q[1].text) ELSE q[1].text)
         \o map_quoted(Tail(q))

----------------------------------------------------------------------------
(* impl From<biblatex::Chunks> for QuotedString *)

Verbatim(s) == [chunk |-> "Verbatim", s |-> s]
Normal(s) == [chunk |-> "Normal", s |-> s]

ChunkParts(cs) ==
    [i \in 1..Len(cs) |-> IF cs[i].chunk = "Verbatim" THEN Part(TRUE, cs[i].s)
                          ELSE Part(FALSE, cs[i].s)]

\* a slip: the two chunk variants mapped to each other's flag
QuotedStringFromSwapped(cs) ==
    from_parts([i \in 1..Len(cs) |-> IF cs[i].chunk = "Verbatim" THEN Part(FALSE, cs[i].s)
                                     ELSE Part(TRUE, cs[i].s)])

\* a slip: the parts stored as collected, from_parts not called
QuotedStringFromRaw(cs) == ChunkParts(cs)

QuotedStringFrom(cs) == from_parts(ChunkParts(cs))

----------------------------------------------------------------------------
(* Field names.  A name is the sequence of its pieces, split at every '_'. *)

author == <<"author">>
title == <<"title">>
journal == <<"journal">>
year == <<"year">>
publisher == <<"publisher">>
chapter == <<"chapter">>
pages == <<"pages">>
school == <<"school">>
institution == <<"institution">>
doi == <<"doi">>
book_title == <<"book", "_", "title">>
x_y_z == <<"x", "_", "y", "_", "z">>
booktitle == <<"booktitle">>

\* a slip: only the first '_' removed (str::replacen(.., 1))
ReplaceFirstUnderscore(name) ==
    IF \E i \in 1..Len(name) : name[i] = "_"
    THEN LET i == CHOOSE k \in 1..Len(name) :
                      name[k] = "_" /\ \A j \in 1..(k - 1) : name[j] # "_"
             rest == SubSeq(name, i + 1, Len(name))
         IN  <<Flatten(SubSeq(name, 1, i - 1)) \o Head(rest)>> \o Tail(rest)
    ELSE name

\* str::replace('_', "") on a field name: no '_' is left, so one piece
ReplaceUnderscores(name) == <<Flatten(SelectSeq(name, LAMBDA c : c # "_"))>>

----------------------------------------------------------------------------
(* ast::Entry: the kinds, their required fields, the Field view. *)

Kinds == {"Article", "Book", "Booklet", "BookChapter", "BookPages", "BookSection",
          "InProceedings", "Manual", "MasterThesis", "PhdThesis", "Other",
          "Proceedings", "TechReport", "Unpublished"}

RequiredFields(kind) ==
    CASE kind = "Article" -> <<author, title, journal, year>>
      [] kind = "Book" -> <<author, title, publisher, year>>
      [] kind = "Booklet" -> <<title>>
      [] kind = "BookChapter" -> <<author, title, chapter, publisher, year>>
      [] kind = "BookPages" -> <<author, title, pages, publisher, year>>
      [] kind = "BookSection" -> <<author, title, book_title, publisher, year>>
      [] kind = "InProceedings" -> <<author, title, book_title, year>>
      [] kind = "Manual" -> <<title>>
      [] kind = "MasterThesis" -> <<author, title, school, year>>
      [] kind = "PhdThesis" -> <<author, title, school, year>>
      [] kind = "Other" -> <<title>>
      [] kind = "Proceedings" -> <<title, year>>
      [] kind = "TechReport" -> <<author, title, institution, year>>
      [] kind = "Unpublished" -> <<author, title>>

Entry(kind, cite, required, optional) ==
    [kind |-> kind, cite |-> cite, required |-> required, optional |-> optional]

Field(name, value) == [name |-> name, value |-> value]

\* Entry::fields(): required fields in canonical order, then the optional map in
\* the order `order` (the iteration order of the map)
EntryFields(entry, order) ==
    LET req == RequiredFields(entry.kind)
    IN  [i \in 1..Len(req) |-> Field(req[i], entry.required[req[i]])]
        \o [i \in 1..Len(order) |-> Field(order[i], entry.optional[order[i]])]

\* Entry::set_cite
set_cite(entry, cite) == [entry EXCEPT !.cite = cite]

----------------------------------------------------------------------------
(* BibTex::compose *)

compose_variant(entry) ==
    CASE entry.kind = "Article" -> "article"
      [] entry.kind = "Book" -> "book"
      [] entry.kind = "Booklet" -> "booklet"
      [] entry.kind \in {"BookChapter", "BookPages"} -> "inbook"
      [] entry.kind = "BookSection" -> "incollection"
      [] entry.kind = "InProceedings" -> "inproceedings"
      [] entry.kind = "Manual" -> "manual"
      [] entry.kind = "MasterThesis" -> "masterthesis"
      [] entry.kind = "PhdThesis" -> "phdthesis"
      [] entry.kind = "Other" -> "misc"
      [] entry.kind = "Proceedings" -> "proceedings"
      [] entry.kind = "TechReport" -> "techreport"
      [] entry.kind = "Unpublished" -> "unpublished"

\* a slip: replacen('_', "", 1) in place of replace('_', "")
compose_fields_replace_first(fields) ==
    Concat([i \in 1..Len(fields) |->
        <<"    ">> \o ReplaceFirstUnderscore(fields[i].name) \o <<" = {">>
        \o map_quoted_pieces(fields[i].value) \o <<"},\n">>])

compose_fields(fields) ==
    Concat([i \in 1..Len(fields) |->
        <<"    ">> \o ReplaceUnderscores(fields[i].name) \o <<" = {">>
        \o map_quoted_pieces(fields[i].value) \o <<"},\n">>])

\* the iteration orders the optional maps of the entries can have: one per entry
OptionalOrders(entries) ==
    {o \in [1..Len(entries) -> UNION {Perms(DOMAIN entries[i].optional) : i \in 1..Len(entries)}] :
        \A i \in 1..Len(entries) : o[i] \in Perms(DOMAIN entries[i].optional)}

BibTexCompose(ast, orders) ==
    Concat([i \in 1..Len(ast.entries) |->
        <<"@", compose_variant(ast.entries[i]), "{", ast.entries[i].cite, ",\n">>
        \o compose_fields(EntryFields(ast.entries[i], orders[i]))
        \o <<"}\n">>])

----------------------------------------------------------------------------
(* The grammar parser (crate biblatex), on the pieces of the text.  Text   *)
(* outside a record is skipped; a record that does not close makes the     *)
(* whole parse fail.  The records of one text have distinct keys and the   *)
(* fields of one record distinct names.                                    *)

Whitespace == {" ", "    ", "\n"}
AfterKey == {",\n", ","}
Assign == {" = {", "={"}
ValueEnd == {"},\n", "},"}
RecordEnd == {"}\n", "}"}

\* the first position >= i of t holding a piece of S, or 0
FindFrom(t, i, S) ==
    IF \E j \in i..Len(t) : t[j] \in S
    THEN CHOOSE j \in i..Len(t) : t[j] \in S /\ \A k \in i..(j - 1) : t[k] \notin S
    ELSE 0

\* the chunks of a value: a braced piece is verbatim, any other is normal
RECURSIVE ValueChunks(_)
ValueChunks(v) ==
    IF v = <<>> THEN <<>>
    ELSE IF v[1] = "{" /\ Len(v) >= 3 /\ v[3] = "}"
         THEN <<Verbatim(v[2])>> \o ValueChunks(SubSeq(v, 4, Len(v)))
         ELSE <<Normal(v[1])>> \o ValueChunks(Tail(v))

BracesBalanced(v) ==
    \A i \in 1..Len(v) :
        /\ v[i] = "{" => (i + 2 <= Len(v) /\ v[i + 2] = "}")
        /\ v[i] = "}" => (i > 2 /\ v[i - 2] = "{")

\* the fields of a record from position i on: [ok, fields, next]
RECURSIVE ParseFields(_, _, _)
ParseFields(t, i, acc) ==
    IF i > Len(t) THEN [ok |-> FALSE, fields |-> acc, next |-> i]
    ELSE IF t[i] \in Whitespace THEN ParseFields(t, i + 1, acc)
    ELSE IF t[i] \in RecordEnd THEN [ok |-> TRUE, fields |-> acc, next |-> i + 1]
    ELSE LET a == FindFrom(t, i, Assign)
             e == IF a = 0 THEN 0 ELSE FindFrom(t, a + 1, ValueEnd)
         IN  IF a = 0 \/ e = 0 \/ a = i \/ ~BracesBalanced(SubSeq(t, a + 1, e - 1))
             THEN [ok |-> FALSE, fields |-> acc, next |-> i]
             ELSE ParseFields(t, e + 1,
                      Append(acc, [name |-> SubSeq(t, i, a - 1),
                                   value |-> ValueChunks(SubSeq(t, a + 1, e - 1))]))

\* Bibliography::parse: [some, entries], entries a sequence of
\* [entry_type keyword, key, fields]
RECURSIVE ParseRecords(_, _, _)
ParseRecords(t, i, acc) ==
    IF i > Len(t) THEN [some |-> TRUE, entries |-> acc]
    ELSE IF t[i] # "@" THEN ParseRecords(t, i + 1, acc)
    ELSE IF i + 4 > Len(t) \/ t[i + 2] # "{" \/ t[i + 4] \notin AfterKey
         THEN [some |-> FALSE, entries |-> <<>>]
         ELSE LET f == ParseFields(t, i + 5, <<>>)
              IN  IF ~f.ok THEN [some |-> FALSE, entries |-> <<>>]
                  ELSE ParseRecords(t, f.next,
                           Append(acc, [keyword |-> t[i + 1], key |-> t[i + 3],
                                        fields |-> f.fields]))

BibliographyParse(t) == ParseRecords(t, 1, <<>>)

\* biblatex::EntryType of a type keyword
EntryTypeOf(keyword) ==
    CASE keyword = "article" -> "Article"
      [] keyword = "book" -> "Book"
      [] keyword = "booklet" -> "Booklet"
      [] keyword = "inbook" -> "InBook"
      [] keyword = "incollection" -> "InCollection"
      [] keyword = "inproceedings" -> "InProceedings"
      [] keyword = "manual" -> "Manual"
      [] keyword = "mastersthesis" -> "MastersThesis"
      [] keyword = "phdthesis" -> "PhdThesis"
      [] keyword = "techreport" -> "TechReport"
      [] keyword = "report" -> "Report"
      [] keyword = "misc" -> "Misc"
      [] keyword = "proceedings" -> "Proceedings"
      [] keyword = "unpublished" -> "Unpublished"
      [] OTHER -> "Unknown"

----------------------------------------------------------------------------
(* ast::Resolver *)

EmptyMap == [n \in {} |-> <<>>]

resolver_with_cite(kind, cite) ==
    [kind |-> kind, cite |-> cite, required |-> EmptyMap, optional |-> EmptyMap]

MapPut(m, k, v) == [n \in DOMAIN m \cup {k} |-> IF n = k THEN v ELSE m[n]]

set_field(r, name, value) ==
    IF name \in Range(RequiredFields(r.kind))
    THEN [r EXCEPT !.required = MapPut(r.required, name, value)]
    ELSE [r EXCEPT !.optional = MapPut(r.optional, name, value)]

\* Resolver::book_title
set_book_title(r, value) == set_field(r, book_title, value)

\* the required names of the kind that were never set, in canonical order
MissingFields(r) ==
    SelectSeq(RequiredFields(r.kind), LAMBDA n : n \notin DOMAIN r.required)

\* Resolver::resolve
Resolves(r) == MissingFields(r) = <<>>

----------------------------------------------------------------------------
(* impl From<biblatex::Entry> for ast::Resolver *)

KindOfEntryType(entry_type) ==
    CASE entry_type = "Article" -> "Article"
      [] entry_type = "Book" -> "Book"
      [] entry_type = "Booklet" -> "Booklet"
      [] entry_type = "InCollection" -> "BookSection"
      [] entry_type = "InProceedings" -> "InProceedings"
      [] entry_type = "Manual" -> "Manual"
      [] entry_type = "MastersThesis" -> "MasterThesis"
      [] entry_type = "PhdThesis" -> "PhdThesis"
      [] entry_type \in {"TechReport", "Report"} -> "TechReport"
      [] OTHER -> "Other"

\* the loop over fields.drain(), the fields taken in the order `order`
RECURSIVE DrainFields(_, _, _)
DrainFields(resolver, fields, order) ==
    IF order = <<>> THEN resolver
    ELSE LET f == fields[Head(order)]
         IN  DrainFields(IF f.name = booktitle
                         THEN set_book_title(resolver, QuotedStringFrom(f.value))
                         ELSE set_field(resolver, f.name, QuotedStringFrom(f.value)),
                         fields, Tail(order))

ResolverFrom(entry, order) ==
    DrainFields(resolver_with_cite(KindOfEntryType(EntryTypeOf(entry.keyword)), entry.key),
                entry.fields, order)

\* the orders drain() is taken in: the result depends on the order only through
\* which of two fields that set the same slot comes last, and the order of the text
\* and its reverse give every two fields both ways round
DrainOrdersOf(entry) ==
    LET n == Len(entry.fields)
    IN  {[i \in 1..n |-> i], [i \in 1..n |-> n + 1 - i]}

----------------------------------------------------------------------------
(* ast::Biblio and Biblio::try_resolve *)

HasCite(entries, cite) == \E i \in 1..Len(entries) : entries[i].cite = cite

\* the entry replaces the one of the same cite key, or is added at the end
InsertEntry(entries, entry) ==
    IF HasCite(entries, entry.cite)
    THEN [i \in 1..Len(entries) |->
             IF entries[i].cite = entry.cite THEN entry ELSE entries[i]]
    ELSE Append(entries, entry)

RECURSIVE InsertAll(_, _)
InsertAll(entries, more) ==
    IF more = <<>> THEN entries
    ELSE InsertAll(InsertEntry(entries, Head(more)), Tail(more))

BiblioNew(entries) == [entries |-> InsertAll(<<>>, entries), dirty |-> FALSE]

BiblioInsert(b, entry) == [entries |-> InsertEntry(b.entries, entry), dirty |-> TRUE]

\* Biblio::remove: the Biblio afterwards, and the entry removed (<<>> for None)
BiblioRemove(b, cite) ==
    IF HasCite(b.entries, cite)
    THEN [biblio |-> [entries |-> SelectSeq(b.entries, LAMBDA e : e.cite # cite),
                      dirty |-> TRUE],
          removed |-> SelectSeq(b.entries, LAMBDA e : e.cite = cite)]
    ELSE [biblio |-> b, removed |-> <<>>]

\* Resolver::resolve of a Resolver whose required fields are all set
Finalize(r) == Entry(r.kind, r.cite, r.required, r.optional)

try_resolve(resolvers) ==
    LET done == SelectSeq(resolvers, Resolves)
        failed == SelectSeq(resolvers, LAMBDA r : ~Resolves(r))
    IN  IF failed = <<>>
        THEN [tag |-> "Biblio",
              biblio |-> BiblioNew([i \in 1..Len(done) |-> Finalize(done[i])])]
        ELSE [tag |-> "BiblioResolver",
              entries |-> [i \in 1..Len(done) |-> Finalize(done[i])],
              failed |-> [i \in 1..Len(failed) |->
                             [resolver |-> failed[i], missing |-> MissingFields(failed[i])]]]

----------------------------------------------------------------------------
(* BibTex::parse *)

DeserializeError == [tag |-> "Err", kind |-> "Deserialize"]

\* the orders fields.drain() can take, one per record of the text
DrainOrders(text) ==
    LET es == BibliographyParse(text).entries
    IN  {o \in [1..Len(es) -> UNION {DrainOrdersOf(es[i]) : i \in 1..Len(es)}] :
            \A i \in 1..Len(es) : o[i] \in DrainOrdersOf(es[i])}

\* a slip: no is_empty() test, the empty string goes to the grammar parser
BibTexParseNoEmptyCase(text, orders) ==
    LET parsed == BibliographyParse(text)
    IN  IF ~parsed.some \/ Len(parsed.entries) = 0 THEN DeserializeError
        ELSE try_resolve([i \in 1..Len(parsed.entries) |->
                             ResolverFrom(parsed.entries[i], orders[i])])

\* a slip: a record that does not resolve reported as a Deserialize error
BibTexParseStrict(text, orders) ==
    LET parsed == BibliographyParse(text)
        resolvers == [i \in 1..Len(parsed.entries) |->
                         ResolverFrom(parsed.entries[i], orders[i])]
    IN  IF Flatten(text) = "" THEN try_resolve(<<>>)
        ELSE IF ~parsed.some \/ Len(parsed.entries) = 0 THEN DeserializeError
        ELSE IF \E i \in 1..Len(resolvers) : ~Resolves(resolvers[i]) THEN DeserializeError
        ELSE try_resolve(resolvers)

BibTexParse(text, orders) ==
    LET parsed == BibliographyParse(text)
    IN  IF Flatten(text) = "" THEN try_resolve(<<>>)
        ELSE IF ~parsed.some \/ Len(parsed.entries) = 0 THEN DeserializeError
        ELSE try_resolve([i \in 1..Len(parsed.entries) |->
                             ResolverFrom(parsed.entries[i], orders[i])])

----------------------------------------------------------------------------
(* Inputs. *)

SeqsUpTo(S, n) == UNION {[1..k -> S] : k \in 0..n}

NoResult == [tag |-> "None"]
NoOp == [op |-> "none"]
NoCmd == [cmd |-> "none"]
NoRun == [trace |-> <<>>]

\* the chunks of the test biblatex_verbatim_chunk_escape_is_corrected
HttpChunks == <<Verbatim("(HTTP/"), Normal("1"), Verbatim("."), Normal("1"), Verbatim(")")>>

ChunkValues == {Verbatim("1"), Verbatim("."), Normal("1"), Normal(".")}

ChunkLists == SeqsUpTo(ChunkValues, MaxChunks) \cup {HttpChunks}

CiteAt(i) == "entry" \o ToString(i)

Values == {QuotedStringNew("Test"), from_parts(<<Part(FALSE, "An "), Part(TRUE, "RFC")>>)}

OptSeqs == {<<>>, <<author>>, <<x_y_z>>, <<author, x_y_z>>, <<x_y_z, author>>}

\* an entry as its constructor is given it: every required field of the kind set
\* to `value`, the optional fields inserted in the order `opt`
EntryInputs ==
    {[kind |-> k, value |-> QuotedStringNew("Test"), opt |-> <<>>] : k \in Kinds}
    \cup {[kind |-> "Manual", value |-> v, opt |-> o] : v \in Values, o \in OptSeqs \ {<<>>}}

MakeEntry(d, cite) ==
    Entry(d.kind, cite,
          [n \in Range(RequiredFields(d.kind)) |-> d.value],
          [n \in Range(d.opt) |-> QuotedStringNew("Me")])

BiblioInputs == SeqsUpTo(EntryInputs, MaxEntries)

\* one record of a BibTeX file: the fields named in `names`, in that order
RecordText(keyword, key, names) ==
    <<"@", keyword, "{", key, ",\n">>
    \o Concat([i \in 1..Len(names) |-> <<"    ">> \o names[i] \o <<" = {", "Text", "},\n">>])
    \o <<"}\n">>

RecordInputs ==
    {[keyword |-> k, names |-> <<author>> \o t \o b \o <<year>>] :
        k \in {"manual", "inproceedings", "misc", "report"},
        t \in {<<>>, <<title>>}, b \in {<<>>, <<booktitle>>}}

\* the input of the test parse_booktitle_field_as_book_title
MiscText ==
    <<"@", "misc", "{", "cite", ",", " ", "title", "={", "title", "},",
      "booktitle", "={", "Correct", "},", "}">>

RawInputs ==
    {Concat([i \in 1..Len(rs) |-> RecordText(rs[i].keyword, CiteAt(i), rs[i].names)]) :
        rs \in SeqsUpTo(RecordInputs, MaxEntries)}
    \cup {MiscText,
          <<"\n">>,
          <<"% no record here\n">>,
          <<"@", "misc", "{", "cite", ",", " ", "title", "={", "title">>,
          <<"@", "misc", "{", "cite", ",", " ", "title", "={", "{", "title", "},", "}">>}

qsVars == <<chunks, qs, out>>
codecVars == <<biblio, inserted, raw, result>>
opVars == <<last, ops>>
runVars == <<cmd, run>>

----------------------------------------------------------------------------
(* QuotedString::from(chunks), then map_quoted(bibtex_esc). *)

InitQS ==
    /\ pc = "chunks"
    /\ chunks \in ChunkLists
    /\ qs = <<>>
    /\ out = ""
    /\ biblio = BiblioNew(<<>>) /\ inserted = <<>> /\ raw = <<>> /\ result = NoResult
    /\ last = NoOp /\ ops = 0 /\ cmd = NoCmd /\ run = NoRun

FromChunks ==
    /\ pc = "chunks"
    /\ qs' = QuotedStringFrom(chunks)
    /\ pc' = "quoted"
    /\ UNCHANGED <<chunks, out, codecVars, opVars, runVars>>

MapQuoted ==
    /\ pc = "quoted"
    /\ out' = map_quoted(qs)
    /\ pc' = "mapped"
    /\ UNCHANGED <<chunks, qs, codecVars, opVars, runVars>>

NextQS == FromChunks \/ MapQuoted

SpecQS == InitQS /\ [][NextQS]_vars

----------------------------------------------------------------------------
(* The codec: compose a Biblio and parse the text again, or parse a text. *)

InitCodec ==
    /\ \/ /\ pc = "biblio"
          /\ \E d \in BiblioInputs :
                /\ biblio = BiblioNew([i \in 1..Len(d) |-> MakeEntry(d[i], CiteAt(i))])
                /\ inserted = [i \in 1..Len(d) |-> d[i].opt]
          /\ raw = <<>>
       \/ /\ pc = "text"
          /\ raw \in RawInputs
          /\ biblio = BiblioNew(<<>>)
          /\ inserted = <<>>
    /\ result = NoResult
    /\ chunks = <<>> /\ qs = <<>> /\ out = ""
    /\ last = NoOp /\ ops = 0 /\ cmd = NoCmd /\ run = NoRun

Compose ==
    /\ pc = "biblio"
    /\ \E orders \in OptionalOrders(biblio.entries) :
          raw' = BibTexCompose(biblio, orders)
    /\ pc' = "composed"
    /\ UNCHANGED <<biblio, inserted, result, qsVars, opVars, runVars>>

Parse ==
    /\ pc \in {"composed", "text"}
    /\ \E orders \in DrainOrders(raw) :
          result' = BibTexParse(raw, orders)
    /\ pc' = IF pc = "composed" THEN "reparsed" ELSE "parsed"
    /\ UNCHANGED <<biblio, inserted, raw, qsVars, opVars, runVars>>

NextCodec == Compose \/ Parse

SpecCodec == InitCodec /\ [][NextCodec]_vars

----------------------------------------------------------------------------
(* Properties of QuotedString::from(chunks). *)

RECURSIVE ChunkText(_)
ChunkText(cs) == IF cs = <<>> THEN "" ELSE Head(cs).s \o ChunkText(Tail(cs))

\* a run of verbatim chunks split by normal chunks: it starts and ends verbatim
\* and every normal chunk has a verbatim chunk on both sides
SplitVerbatimRun(cs) ==
    /\ Len(cs) >= 3
    /\ cs[1].chunk = "Verbatim" /\ cs[Len(cs)].chunk = "Verbatim"
    /\ \E i \in 1..Len(cs) : cs[i].chunk = "Normal"
    /\ \A i \in 1..Len(cs) :
          cs[i].chunk = "Normal" =>
              cs[i - 1].chunk = "Verbatim" /\ cs[i + 1].chunk = "Verbatim"

\* C8: a chunk list that is one verbatim span split by normal chunks becomes a
\* single verbatim part holding the chunk texts in their order, map_quoted with
\* the brace-wrapping escape gives that text wrapped once, and the chunks
\* V("(HTTP/") N("1") V(".") N("1") V(")") give "{(HTTP/1.1)}".
C8_EscapeCorrected ==
    /\ (pc \in {"quoted", "mapped"} /\ SplitVerbatimRun(chunks))
           => qs = <<Part(TRUE, ChunkText(chunks))>>
    /\ (pc = "mapped" /\ SplitVerbatimRun(chunks))
           => out = "{" \o ChunkText(chunks) \o "}"
    /\ (pc = "mapped" /\ chunks = HttpChunks) => out = "{(HTTP/1.1)}"

C8_Witness == pc = "mapped" /\ chunks = HttpChunks /\ Len(qs) = 1

\* chunks i and i+1, which share a variant, merged into one chunk
MergePair(cs, i) ==
    SubSeq(cs, 1, i - 1)
    \o <<[chunk |-> cs[i].chunk, s |-> cs[i].s \o cs[i + 1].s]>>
    \o SubSeq(cs, i + 2, Len(cs))

\* C9: the QuotedString built from a list of parts has no two adjacent parts with
\* the same verbatim flag, and it equals the QuotedString built from the list with
\* any two adjacent parts of the same flag merged beforehand.
C9_Normalized ==
    pc \in {"quoted", "mapped"} =>
        /\ \A i \in 1..(Len(qs) - 1) : qs[i].verbatim # qs[i + 1].verbatim
        /\ \A i \in 1..(Len(chunks) - 1) :
              chunks[i].chunk = chunks[i + 1].chunk =>
                  QuotedStringFrom(MergePair(chunks, i)) = qs

C9_Witness ==
    /\ pc = "quoted"
    /\ Len(chunks) = 4
    /\ chunks[2].chunk = "Normal" /\ chunks[3].chunk = "Normal"
    /\ chunks[1].chunk = "Verbatim" /\ chunks[4].chunk = "Verbatim"
    /\ Len(qs) = 1

----------------------------------------------------------------------------
(* Properties of the codec. *)

Records == BibliographyParse(raw).entries

RecordKind(rec) == KindOfEntryType(EntryTypeOf(rec.keyword))

InternalName(wire) == IF wire = <<"booktitle">> THEN <<"book", "_", "title">> ELSE wire

Provided(rec) == {InternalName(rec.fields[j].name) : j \in 1..Len(rec.fields)}

RecordComplete(rec) == Range(RequiredFields(RecordKind(rec))) \subseteq Provided(rec)

Count(seq, Test(_)) == Cardinality({j \in 1..Len(seq) : Test(seq[j])})

\* C1: parse(compose(B)) is Ok(Ok(B')) and B' has the entries of B: the same cite
\* keys, kinds and field values under the same field names.
C1_RoundTrip ==
    pc = "reparsed" =>
        /\ result.tag = "Biblio"
        /\ Range(result.biblio.entries) = Range(biblio.entries)

\* C2: try_resolve gives a Biblio exactly when every record has all the required
\* fields of its kind; otherwise a BiblioResolver that holds every record once,
\* finalized or unresolved with exactly the required names never set as missing;
\* and a record that misses required fields is no Deserialize error.
C2_PartialFailure ==
    LET parsed == BibliographyParse(raw)
        recs == parsed.entries
        kinds == [i \in 1..Len(recs) |-> RecordKind(recs[i])]
        complete == [i \in 1..Len(recs) |-> RecordComplete(recs[i])]
        missing == [i \in 1..Len(recs) |->
                       SelectSeq(RequiredFields(kinds[i]),
                                 LAMBDA n : n \notin Provided(recs[i]))]
    IN  (pc \in {"parsed", "reparsed"} /\ Flatten(raw) # "" /\ parsed.some /\ Len(recs) > 0) =>
            /\ result.tag \in {"Biblio", "BiblioResolver"}
            /\ result.tag = "Biblio" <=> \A i \in 1..Len(recs) : complete[i]
            /\ result.tag = "Biblio" =>
                  /\ Len(result.biblio.entries) = Len(recs)
                  /\ \A i \in 1..Len(recs) :
                        Count(result.biblio.entries,
                              LAMBDA e : e.cite = recs[i].key /\ e.kind = kinds[i]) = 1
            /\ result.tag = "BiblioResolver" =>
                  /\ Len(result.entries) + Len(result.failed) = Len(recs)
                  /\ \A i \in 1..Len(recs) :
                        LET done == Count(result.entries,
                                          LAMBDA e : e.cite = recs[i].key /\ e.kind = kinds[i])
                            open == Count(result.failed,
                                          LAMBDA f : /\ f.resolver.cite = recs[i].key
                                                     /\ f.resolver.kind = kinds[i]
                                                     /\ f.missing = missing[i])
                        IN  IF complete[i] THEN done = 1 /\ open = 0
                            ELSE done = 0 /\ open = 1

C2_Witness ==
    /\ pc = "parsed"
    /\ result.tag = "BiblioResolver"
    /\ Len(result.entries) = 1
    /\ Len(result.failed) = 1
    /\ Len(result.failed[1].missing) = 2

\* (the empty string is reached too: C3_WitnessEmpty)
\* C3: parse of the empty string is Ok(Ok(empty Biblio)) with dirty() false; the
\* result is the Deserialize error, and nothing else, exactly when the string is
\* not empty and the grammar parser fails or gives no record; otherwise it is Ok.
C3_ParseOutcome ==
    LET parsed == BibliographyParse(raw)
    IN  pc \in {"parsed", "reparsed"} =>
            /\ Flatten(raw) = "" => result = [tag |-> "Biblio",
                                              biblio |-> [entries |-> <<>>, dirty |-> FALSE]]
            /\ result.tag = "Err" <=>
                  /\ Flatten(raw) # ""
                  /\ ~parsed.some \/ Len(parsed.entries) = 0
            /\ result.tag = "Err" => result = [tag |-> "Err", kind |-> "Deserialize"]
            /\ result.tag \in {"Err", "Biblio", "BiblioResolver"}

C3_Witness ==
    /\ pc = "parsed"
    /\ Flatten(raw) # "" /\ BibliographyParse(raw).some /\ Len(Records) = 0
    /\ result.tag = "Err"

C3_WitnessEmpty == pc \in {"parsed", "reparsed"} /\ Flatten(raw) = "" /\ result.tag = "Biblio"

RECURSIVE JoinLines(_)
JoinLines(fields) ==
    IF fields = <<>> THEN ""
    ELSE "    " \o Flatten(SelectSeq(Head(fields).name, LAMBDA c : c # "_")) \o " = {"
         \o map_quoted(Head(fields).value) \o "},\n" \o JoinLines(Tail(fields))

\* the text of the claim: the header, the required fields in canonical order,
\* the optional fields in the order they were inserted, the closing line
LayoutOf(entry, insertion) ==
    "@" \o compose_variant(entry) \o "{" \o entry.cite \o ",\n"
    \o JoinLines(EntryFields(entry, insertion)) \o "}\n"

\* C6: compose writes the entries in order, with nothing between them, each as
\* '@<type>{<cite>,\n', one '    <name> = {<value>},\n' per field, '}\n', the
\* required fields in canonical order and then the optional fields in the order
\* they were inserted.
C6_ComposeLayout ==
    pc = "composed" =>
        Flatten(raw) = Flatten([i \in 1..Len(biblio.entries) |->
                                   LayoutOf(biblio.entries[i], inserted[i])])

\* the test compose_to_bibtex
ComposeToBibtexTest ==
    (pc = "composed"
        /\ biblio.entries = <<Entry("Manual", "entry1", (title :> QuotedStringNew("Test")),
                                    (author :> QuotedStringNew("Me")))>>)
    => Flatten(raw) = "@manual{entry1,\n    title = {Test},\n    author = {Me},\n}\n"

ExpectedWire(name) ==
    CASE name = book_title -> <<"booktitle">>
      [] name = x_y_z -> <<"xyz">>
      [] OTHER -> name

EntryNames(entry) == DOMAIN entry.required \cup DOMAIN entry.optional

\* what the parse kept of the record of key `cite`: entries and open Resolvers
ResultItems ==
    IF result.tag = "Biblio" THEN Range(result.biblio.entries)
    ELSE IF result.tag = "BiblioResolver"
         THEN Range(result.entries) \cup {result.failed[j].resolver : j \in 1..Len(result.failed)}
         ELSE {}

\* C7: compose writes every field name with every '_' removed (book_title as
\* booktitle, x_y_z as xyz); parse stores the wire field booktitle under
\* book_title and every other wire field under its wire name.
C7_WireNames ==
    LET parsed == BibliographyParse(raw)
        recs == parsed.entries
        items == ResultItems
    IN  /\ pc \in {"composed", "reparsed"} =>
              /\ \A k \in 1..Len(raw) : raw[k] # "_"
              /\ parsed.some
              /\ Len(recs) = Len(biblio.entries)
              /\ \A i \in 1..Len(recs) :
                    /\ Len(recs[i].fields) = Cardinality(EntryNames(biblio.entries[i]))
                    /\ {recs[i].fields[j].name : j \in 1..Len(recs[i].fields)}
                           = {ExpectedWire(n) : n \in EntryNames(biblio.entries[i])}
        /\ (pc \in {"parsed", "reparsed"} /\ result.tag # "Err") =>
              \A i \in 1..Len(recs) : \A j \in 1..Len(recs[i].fields) :
                  LET f == recs[i].fields[j]
                      name == IF f.name = <<"booktitle">> THEN <<"book", "_", "title">>
                              ELSE f.name
                  IN  \E item \in items :
                          /\ item.cite = recs[i].key
                          /\ IF name \in Range(RequiredFields(item.kind))
                             THEN /\ name \in DOMAIN item.required
                                  /\ item.required[name] = QuotedStringFrom(f.value)
                             ELSE /\ name \in DOMAIN item.optional
                                  /\ item.optional[name] = QuotedStringFrom(f.value)
                          /\ f.name = <<"booktitle">> => <<"booktitle">> \notin EntryNames(item)

C7_Witness ==
    /\ pc = "reparsed"
    /\ result.tag = "Biblio"
    /\ \E i \in 1..Len(biblio.entries) : book_title \in EntryNames(biblio.entries[i])
    /\ \E i \in 1..Len(biblio.entries) : x_y_z \in EntryNames(biblio.entries[i])
    /\ \E e \in ResultItems : book_title \in EntryNames(e)

----------------------------------------------------------------------------
(* AddCommands::execute and Commands::execute.                             *)
(* What the collaborators do is the environment `env` of the call:         *)
(*   [kind |-> "duplicate"]     check_entry_field_duplication fails        *)
(*   [kind |-> "lookup_error"]  entries_by_doi / _rfc / _isbn fails        *)
(*   [kind |-> "found", entries |-> .., pick |-> ..]  the entries found,   *)
(*       and the one user_select returns (0: user_select fails)            *)
(* An Option is a sequence of length 0 or 1.                               *)

Failed(b, why) == [ok |-> FALSE, message |-> why, biblio |-> b, entry |-> <<>>]

\* a slip: the entry inserted first and its cite key overridden afterwards
AddExecuteCiteAfterInsert(command, b, env) ==
    IF env.kind = "duplicate" THEN Failed(b, "duplicate")
    ELSE IF env.kind = "lookup_error" THEN Failed(b, "lookup")
    ELSE IF env.entries = <<>>
         THEN [ok |-> TRUE, message |-> "No entries found!", biblio |-> b, entry |-> <<>>]
    ELSE IF ~command.confirm /\ env.pick = 0 THEN Failed(b, "select")
    ELSE LET entry == IF command.confirm THEN env.entries[1] ELSE env.entries[env.pick]
             cite_key == IF command.cite # <<>> THEN command.cite[1] ELSE entry.cite
             added == BiblioInsert(b, entry)
         IN  [ok |-> TRUE,
              message |-> "Entry added to bibliography with cite key:\n" \o cite_key,
              biblio |-> [added EXCEPT !.entries =
                             [i \in 1..Len(added.entries) |->
                                 IF added.entries[i] = entry
                                 THEN set_cite(entry, cite_key) ELSE added.entries[i]]],
              entry |-> <<set_cite(entry, cite_key)>>]

AddExecute(command, b, env) ==
    IF env.kind = "duplicate" THEN Failed(b, "duplicate")
    ELSE IF env.kind = "lookup_error" THEN Failed(b, "lookup")
    ELSE IF env.entries = <<>>
         THEN [ok |-> TRUE, message |-> "No entries found!", biblio |-> b, entry |-> <<>>]
    ELSE IF ~command.confirm /\ env.pick = 0 THEN Failed(b, "select")
    ELSE LET found == IF command.confirm THEN env.entries[1] ELSE env.entries[env.pick]
             entry == IF command.cite # <<>> THEN set_cite(found, command.cite[1]) ELSE found
         IN  [ok |-> TRUE,
              message |-> "Entry added to bibliography with cite key:\n" \o entry.cite,
              biblio |-> BiblioInsert(b, entry),
              entry |-> <<entry>>]

\* a slip: is_none() in place of is_some()
RmExecuteInverted(command, b) ==
    LET r == BiblioRemove(b, command.cite)
    IN  [ok |-> TRUE,
         message |-> IF r.removed = <<>> THEN "Entry removed from bibliography"
                     ELSE "No entry found with the cite key of '" \o command.cite \o "'",
         biblio |-> r.biblio,
         entry |-> <<>>]

RmExecute(command, b) ==
    LET r == BiblioRemove(b, command.cite)
    IN  [ok |-> TRUE,
         message |-> IF r.removed # <<>> THEN "Entry removed from bibliography"
                     ELSE "No entry found with the cite key of '" \o command.cite \o "'",
         biblio |-> r.biblio,
         entry |-> <<>>]

CommandsExecute(command, b, env) ==
    IF command.cmd = "Add" THEN AddExecute(command, b, env) ELSE RmExecute(command, b)

ManualEntry(cite, text) ==
    Entry("Manual", cite, (title :> QuotedStringNew(text)), EmptyMap)

StoredEntries == {ManualEntry(c, t) : c \in {"entry1", "entry2"}, t \in {"Test", "Other"}}

LookupEntries == {ManualEntry(c, "New") : c \in {"entry1", "entry2"}}

AddCommandSet ==
    {[cmd |-> "Add", sub |-> s, cite |-> c, confirm |-> k] :
        s \in {"Doi", "Ietf", "Isbn"},
        c \in {<<>>, <<"entry1">>, <<"entry2">>},
        k \in BOOLEAN}

RmCommandSet == {[cmd |-> "Rm", cite |-> c] : c \in {"entry1", "entry2", "entry3"}}

\* records of a file that resolve when read
LoadInputs == {[keyword |-> k, names |-> <<title>>] : k \in {"manual", "misc"}}

Envs ==
    {[kind |-> "duplicate"], [kind |-> "lookup_error"]}
    \cup UNION {{[kind |-> "found", entries |-> es, pick |-> p] : p \in 0..Len(es)} :
                    es \in SeqsUpTo(LookupEntries, 2)}

----------------------------------------------------------------------------
(* A Biblio under any sequence of add and rm commands. *)

InitBiblio ==
    /\ pc = "start"
    /\ biblio = BiblioNew(<<>>) /\ inserted = <<>> /\ raw = <<>> /\ result = NoResult
    /\ chunks = <<>> /\ qs = <<>> /\ out = ""
    /\ last = NoOp /\ ops = 0 /\ cmd = NoCmd /\ run = NoRun

New ==
    /\ pc = "start"
    /\ \E list \in SeqsUpTo(StoredEntries, MaxEntries) :
          /\ biblio' = BiblioNew(list)
          /\ last' = [op |-> "new", list |-> list]
    /\ pc' = "ready"
    /\ UNCHANGED <<inserted, raw, result, ops, qsVars, runVars>>

Load ==
    /\ pc = "start"
    /\ \E list \in SeqsUpTo(LoadInputs, MaxEntries) :
          LET text == Concat([i \in 1..Len(list) |->
                                 RecordText(list[i].keyword, CiteAt(i), list[i].names)])
          IN  \E orders \in DrainOrders(text) :
                  /\ BibTexParse(text, orders).tag = "Biblio"
                  /\ biblio' = BibTexParse(text, orders).biblio
                  /\ raw' = text
                  /\ last' = [op |-> "parse"]
    /\ pc' = "ready"
    /\ UNCHANGED <<inserted, result, ops, qsVars, runVars>>

Add ==
    /\ pc = "ready" /\ ops < MaxOps
    \* the three subcommands differ in the collaborators called only: Doi stands for all
    /\ \E command \in {c \in AddCommandSet : c.sub = "Doi"}, env \in Envs :
          LET r == AddExecute(command, biblio, env)
          IN  /\ biblio' = r.biblio
              /\ last' = [op |-> "add", before |-> biblio, ok |-> r.ok,
                          message |-> r.message, entry |-> r.entry,
                          override |-> command.cite]
    /\ ops' = ops + 1
    /\ UNCHANGED <<pc, inserted, raw, result, qsVars, runVars>>

Rm ==
    /\ pc = "ready" /\ ops < MaxOps
    /\ \E command \in RmCommandSet :
          LET r == RmExecute(command, biblio)
          IN  /\ biblio' = r.biblio
              /\ last' = [op |-> "rm", before |-> biblio, ok |-> r.ok,
                          message |-> r.message, cite |-> command.cite]
    /\ ops' = ops + 1
    /\ UNCHANGED <<pc, inserted, raw, result, qsVars, runVars>>

NextBiblio == New \/ Load \/ Add \/ Rm

SpecBiblio == InitBiblio /\ [][NextBiblio]_vars

----------------------------------------------------------------------------
(* Properties of the Biblio. *)

\* C4: a Biblio from Biblio::new or from a successful parse is not dirty; every
\* insert sets dirty, also one that replaces an entry; a remove sets dirty only
\* when an entry of exactly that cite key was there and was removed; a remove of
\* an unknown cite key reports no entry and changes neither dirty nor the
\* entries; nothing sets dirty back to false.
C4_DirtyTracking ==
    /\ last.op \in {"new", "parse"} => ~biblio.dirty
    /\ last.op = "add" =>
          /\ last.entry # <<>> => biblio.dirty
          /\ last.entry = <<>> => biblio = last.before
          /\ last.before.dirty => biblio.dirty
    /\ last.op = "rm" =>
          /\ IF HasCite(last.before.entries, last.cite)
             THEN /\ biblio.dirty
                  /\ ~HasCite(biblio.entries, last.cite)
                  /\ Len(biblio.entries) = Len(last.before.entries) - 1
                  /\ last.message = "Entry removed from bibliography"
             ELSE /\ biblio = last.before
                  /\ last.message # "Entry removed from bibliography"
          /\ last.before.dirty => biblio.dirty

C4_Witness ==
    /\ last.op = "rm"
    /\ last.before.entries # <<>>
    /\ ~HasCite(last.before.entries, last.cite)
    /\ ~biblio.dirty
    /\ last.message = "No entry found with the cite key of 'entry3'"

\* C5: no two entries of a Biblio share a cite key, after Biblio::new on a list
\* with repeated cite keys and after any adds and removes, also an add whose cite
\* key was overridden to one already there; an insert of an entry whose cite key
\* is there replaces that entry: the number of entries stays and the cite key
\* gives the new entry.
C5_UniqueCites ==
    /\ \A i, j \in 1..Len(biblio.entries) :
          i # j => biblio.entries[i].cite # biblio.entries[j].cite
    /\ last.op = "new" =>
          {e.cite : e \in Range(biblio.entries)} = {e.cite : e \in Range(last.list)}
    /\ (last.op = "add" /\ last.entry # <<>>) =>
          LET e == last.entry[1]
          IN  /\ last.override # <<>> => e.cite = last.override[1]
              /\ {x \in Range(biblio.entries) : x.cite = e.cite} = {e}
              /\ Len(biblio.entries) =
                     IF HasCite(last.before.entries, e.cite)
                     THEN Len(last.before.entries)
                     ELSE Len(last.before.entries) + 1

C5_Witness ==
    /\ last.op = "add" /\ last.entry # <<>>
    /\ last.override = <<"entry2">>
    /\ HasCite(last.before.entries, "entry2")
    /\ Len(last.before.entries) = 2
    /\ last.entry[1] \notin Range(last.before.entries)
    /\ Len(biblio.entries) = 2

----------------------------------------------------------------------------
(* One run of the program: try_main. *)

NoOrders(entries) == [i \in 1..Len(entries) |-> <<>>]

\* what the bibliography file can hold when the program starts
FileTexts ==
    {BibTexCompose(BiblioNew(list), NoOrders(BiblioNew(list).entries)) :
        list \in SeqsUpTo(StoredEntries, MaxEntries)}
    \cup {<<"% no record here\n">>, RecordText("inproceedings", "entry1", <<author, title>>)}

Init ==
    /\ pc = "start"
    /\ raw \in FileTexts
    /\ cmd \in AddCommandSet \cup RmCommandSet
    /\ biblio = BiblioNew(<<>>) /\ inserted = <<>> /\ result = NoResult
    /\ chunks = <<>> /\ qs = <<>> /\ out = ""
    /\ last = NoOp /\ ops = 0 /\ run = NoRun

\* Cli::parse, setup_errlog, open_or_create_format_file: each can fail
Setup ==
    /\ pc = "start"
    /\ \E ok \in BOOLEAN : pc' = IF ok THEN "opened" ELSE "failed"
    /\ UNCHANGED <<codecVars, qsVars, opVars, runVars>>

\* file.read_ast()?
ReadAst ==
    /\ pc = "opened"
    /\ \E orders \in DrainOrders(raw) :
          LET r == BibTexParse(raw, orders)
          IN  /\ result' = r
              /\ biblio' = IF r.tag = "Biblio" THEN r.biblio ELSE biblio
              /\ pc' = IF r.tag = "Biblio" THEN "loaded" ELSE "failed"
    /\ run' = [run EXCEPT !.trace = Append(@, "read")]
    /\ UNCHANGED <<inserted, raw, qsVars, opVars, cmd>>

\* command.execute(&mut biblio)?
Execute ==
    /\ pc = "loaded"
    /\ \E env \in Envs :
          LET r == CommandsExecute(cmd, biblio, env)
          IN  /\ biblio' = r.biblio
              /\ last' = [op |-> "execute", before |-> biblio, ok |-> r.ok,
                          message |-> r.message, entry |-> r.entry]
              /\ pc' = IF r.ok THEN "executed" ELSE "failed"
    /\ run' = [run EXCEPT !.trace = Append(@, "execute")]
    /\ UNCHANGED <<inserted, raw, result, qsVars, ops, cmd>>

\* a slip: the file written without asking dirty()
WriteAlways ==
    /\ pc = "executed"
    /\ \E ok \in BOOLEAN, orders \in OptionalOrders(biblio.entries) :
          /\ raw' = IF ok THEN BibTexCompose(biblio, orders) ELSE raw
          /\ pc' = IF ok THEN "written" ELSE "failed"
    /\ run' = [run EXCEPT !.trace = Append(@, "write")]
    /\ UNCHANGED <<biblio, inserted, result, qsVars, opVars, cmd>>

\* if biblio.dirty() { file.write_ast(biblio)? }
WriteIfDirty ==
    /\ pc = "executed"
    /\ IF biblio.dirty
       THEN /\ \E ok \in BOOLEAN, orders \in OptionalOrders(biblio.entries) :
                  /\ raw' = IF ok THEN BibTexCompose(biblio, orders) ELSE raw
                  /\ pc' = IF ok THEN "written" ELSE "failed"
            /\ run' = [run EXCEPT !.trace = Append(@, "write")]
       ELSE /\ pc' = "written"
            /\ UNCHANGED <<raw, run>>
    /\ UNCHANGED <<biblio, inserted, result, qsVars, opVars, cmd>>

\* println!("{message}"); Ok(())
PrintMessage ==
    /\ pc = "written"
    /\ out' = last.message
    /\ pc' = "done"
    /\ UNCHANGED <<chunks, qs, codecVars, opVars, runVars>>

Next == Setup \/ ReadAst \/ Execute \/ WriteIfDirty \/ PrintMessage

Spec == Init /\ [][Next]_vars

Terminated == pc \in {"done", "failed"}

Executed == last.op = "execute"

Wrote == run.trace = <<"read", "execute", "write">>

\* C10: in one run the bibliography is read once, then the command executes,
\* then the file is written at most once, and it is written exactly when the
\* command returned Ok and dirty() is true then.  So a run whose command fails,
\* an rm of a cite key that is not there and an add that finds no entries write
\* nothing, and a successful add and a successful rm write the file.
C10_PersistenceOrder ==
    /\ run.trace \in {<<>>, <<"read">>, <<"read", "execute">>, <<"read", "execute", "write">>}
    /\ Wrote => (Executed /\ last.ok /\ biblio.dirty)
    /\ Terminated => (Wrote <=> (Executed /\ last.ok /\ biblio.dirty))
    /\ (Terminated /\ Executed) =>
          /\ ~last.ok => ~Wrote
          /\ (cmd.cmd = "Rm" /\ ~HasCite(last.before.entries, cmd.cite)) => ~Wrote
          /\ (cmd.cmd = "Rm" /\ HasCite(last.before.entries, cmd.cite)) => Wrote
          /\ (cmd.cmd = "Add" /\ last.ok /\ last.entry = <<>>) => ~Wrote
          /\ (cmd.cmd = "Add" /\ last.ok /\ last.entry # <<>>) => Wrote

C10_Witness ==
    /\ pc = "done"
    /\ cmd.cmd = "Add"
    /\ Wrote
    /\ raw # <<>>
    /\ out = "Entry added to bibliography with cite key:\nentry2"

====
